---- MODULE Spec2Model ----
(***************************************************************************)
(* strong_json: the StrongJson codec (to_json_dict / from_json_dict).      *)
(* Python values and the JSON-friendly values the codec produces live in   *)
(* one universe: every value is a record of the same shape                 *)
(*     [k: kind, s: string payload, n: integer payload, xs: children]      *)
(* so that any two values can be compared.                                 *)
(***************************************************************************)
EXTENDS Integers, Sequences, FiniteSets, TLC

(***************************************************************************)
(* Bounds                                                                  *)
(***************************************************************************)
\* longest container (tuple, list, set, dict) drawn as an input
MaxLen == 2

(***************************************************************************)
(* Python values                                                           *)
(***************************************************************************)
V(k, s, n, xs) == [k |-> k, s |-> s, n |-> n, xs |-> xs]

PyNone == V("none", "", 0, <<>>)
PyInt(n) == V("int", "", n, <<>>)
PyBool(b) == V("bool", "", IF b THEN 1 ELSE 0, <<>>)
PyStr(s) == V("str", s, 0, <<>>)
\* a float is kept as its repr: "nan", "inf", "-inf" or a finite literal
PyFloat(s) == V("float", s, 0, <<>>)
PyList(xs) == V("list", "", 0, xs)
PyTuple(xs) == V("tuple", "", 0, xs)
\* a set object: its (distinct) elements in the order iteration yields them
PySet(xs) == V("set", "", 0, xs)
\* one (key, value) entry of a dict, or one (name, value) entry of __dict__
Item(key, val) == V("item", "", 0, <<key, val>>)
\* dict: entries in insertion order, keys distinct
PyDict(items) == V("dict", "", 0, items)
OrderedDict(items) == V("dict", "OrderedDict", 0, items)
\* an Enum member: class name and the member's (canonical) name
PyEnum(cls, name) == V("enum", cls, 0, <<PyStr(name)>>)
\* an instance of a user class: class name and __dict__
PyObj(cls, attrs) == V("obj", cls, 0, attrs)
PyDate(y, m, d) == V("date", "", 0, <<PyInt(y), PyInt(m), PyInt(d)>>)
\* datetime: tz is "" for a naive value, else the name of its tzinfo
PyDateTime(y, m, d, hh, mm, ss, us, tz) ==
    V("datetime", tz, 0, <<PyInt(y), PyInt(m), PyInt(d), PyInt(hh), PyInt(mm), PyInt(ss), PyInt(us)>>)
NdArray(lst) == V("ndarray", "", 0, <<lst>>)
DataFrame(dct) == V("DataFrame", "", 0, <<dct>>)
\* a raised exception, by class name
Error(name) == V("error", name, 0, <<>>)
\* no value: nothing encoded / decoded yet
NoValue == V("novalue", "", 0, <<>>)

IsError(v) == v.k = "error"
ItemKey(it) == it.xs[1]
ItemVal(it) == it.xs[2]

RECURSIVE Hashable(_)
Hashable(v) ==
    CASE v.k \in {"list", "dict", "set", "ndarray", "DataFrame"} -> FALSE
      [] v.k = "tuple" -> \A i \in 1..Len(v.xs) : Hashable(v.xs[i])
      [] OTHER -> TRUE

(***************************************************************************)
(* dict operations                                                         *)
(***************************************************************************)
HasKey(d, key) == \E i \in 1..Len(d.xs) : ItemKey(d.xs[i]) = key
GetItem(d, key) == ItemVal(d.xs[CHOOSE i \in 1..Len(d.xs) : ItemKey(d.xs[i]) = key])

\* d[key] = val on an entry list: an existing key keeps its place
RECURSIVE SetItem(_, _, _)
SetItem(items, key, val) ==
    IF items = <<>> THEN <<Item(key, val)>>
    ELSE IF ItemKey(Head(items)) = key THEN <<Item(key, val)>> \o Tail(items)
    ELSE <<Head(items)>> \o SetItem(Tail(items), key, val)

\* a dict display {k1: v1, k2: v2, ...}: entries inserted left to right
RECURSIVE DictDisplayFrom(_, _)
DictDisplayFrom(acc, items) ==
    IF items = <<>> THEN acc
    ELSE DictDisplayFrom(SetItem(acc, ItemKey(Head(items)), ItemVal(Head(items))), Tail(items))
DictDisplay(items) == PyDict(DictDisplayFrom(<<>>, items))

\* the entries of d whose key is not key
RECURSIVE WithoutKey(_, _)
WithoutKey(items, key) ==
    IF items = <<>> THEN <<>>
    ELSE IF ItemKey(Head(items)) = key THEN WithoutKey(Tail(items), key)
    ELSE <<Head(items)>> \o WithoutKey(Tail(items), key)

\* the elements of xs, first occurrences only
RECURSIVE Dedup(_, _)
Dedup(acc, xs) ==
    IF xs = <<>> THEN acc
    ELSE IF \E i \in 1..Len(acc) : acc[i] = Head(xs) THEN Dedup(acc, Tail(xs))
    ELSE Dedup(Append(acc, Head(xs)), Tail(xs))

Range(xs) == {xs[i] : i \in 1..Len(xs)}

\* list(d.keys())
RECURSIVE Keys(_)
Keys(items) == IF items = <<>> THEN <<>> ELSE <<ItemKey(Head(items))>> \o Keys(Tail(items))

(***************************************************************************)
(* User classes handed to the codec                                        *)
(***************************************************************************)
Param(name, has_default, default) == [name |-> name, has_default |-> has_default, default |-> default]

ToJsonableClasses == {"User", "BadUser", "OptUser"}
FromJsonableClasses == {"HookUser"}
EnumClasses == {"Color", "Food", "Meal"}
PlainClasses == {"User", "SimpleClass", "BadUser", "OptUser"}
AllClasses == ToJsonableClasses \cup FromJsonableClasses \cup EnumClasses \cup PlainClasses
\* ToJsonable mixed into a built-in type: class JDict(ToJsonable, dict) and so
\* on, JColor being class JColor(ToJsonable, Enum) with RED = 'reddd'
MixinClasses == {"JDict", "JTuple", "JSet", "JList", "JDate", "JColor"}

\* inspect.signature(obj_class).parameters
Parameters(cls) ==
    CASE cls = "User" -> <<Param("first_name", FALSE, PyNone), Param("last_name", FALSE, PyNone)>>
      [] cls = "SimpleClass" -> <<Param("msg", FALSE, PyNone)>>
      [] cls = "BadUser" -> <<Param("first", FALSE, PyNone), Param("last", FALSE, PyNone)>>
      [] cls = "OptUser" -> <<Param("first", FALSE, PyNone), Param("last", TRUE, PyStr("default last"))>>
      [] cls = "HookUser" -> <<Param("first", FALSE, PyNone), Param("last", FALSE, PyNone)>>
      [] OTHER -> <<Param("value", FALSE, PyNone)>>

\* the class body of an Enum: (name, value) in definition order
Members(cls) ==
    CASE cls = "Color" -> <<Item(PyStr("RED"), PyStr("reddd")), Item(PyStr("Blue"), PyStr("blue"))>>
      [] cls = "Food" -> <<Item(PyStr("NOODLES"), PyInt(1)), Item(PyStr("RICE"), PyInt(2))>>
      [] cls = "Meal" -> <<Item(PyStr("BREAKFAST"), PyInt(1)), Item(PyStr("BRUNCH"), PyInt(1)),
                           Item(PyStr("DINNER"), PyInt(2))>>
      [] cls = "JColor" -> <<Item(PyStr("RED"), PyStr("reddd"))>>
      [] OTHER -> <<>>

\* obj_class[name]: the member defined under name; a name whose value repeats
\* an earlier member's value is an alias of that earlier member
EnumGetItem(cls, name) ==
    LET ms == Members(cls)
    IN IF name.k # "str" \/ ~HasKey(PyDict(ms), name) THEN Error("KeyError")
       ELSE LET val == GetItem(PyDict(ms), name)
                first == CHOOSE i \in 1..Len(ms) :
                            /\ ItemVal(ms[i]) = val
                            /\ \A j \in 1..(i - 1) : ItemVal(ms[j]) # val
            IN PyEnum(cls, ItemKey(ms[first]).s)

\* v.name and v.value of an Enum member
EnumName(v) == v.xs[1]
EnumValue(v) == GetItem(PyDict(Members(v.s)), v.xs[1])

\* obj_class(**kwargs): every parameter bound from kwargs or its default
RECURSIVE BindParameters(_, _)
BindParameters(params, kwargs) ==
    IF params = <<>> THEN <<>>
    ELSE LET p == Head(params)
             val == IF HasKey(kwargs, PyStr(p.name)) THEN GetItem(kwargs, PyStr(p.name)) ELSE p.default
         IN <<Item(PyStr(p.name), val)>> \o BindParameters(Tail(params), kwargs)
Construct(cls, kwargs) == PyObj(cls, BindParameters(Parameters(cls), kwargs))

(***************************************************************************)
(* State: one StrongJson codec, the optional modules, and the last call    *)
(***************************************************************************)
VARIABLES
    class_map,                  \* self.class_map: type name -> class
    type_key,                   \* self.type_key
    data_key,                   \* self.data_key
    treat_dict_as_ordered_dict, \* self.treat_dict_as_ordered_dict
    np,                         \* TRUE iff numpy was importable
    pd,                         \* TRUE iff pandas was importable
    obj,                        \* the value last given to to_json_dict, while json is its encoding
    json,                       \* the last to_json_dict result / from_json_dict argument
    result,                     \* the last from_json_dict outcome (a value or an Error)
    warned                      \* class names of the ClassMapLookUpFailWarnings of the last to_json_dict

vars == <<class_map, type_key, data_key, treat_dict_as_ordered_dict, np, pd, obj, json, result, warned>>
codec == <<class_map, type_key, data_key, treat_dict_as_ordered_dict, np, pd>>

\* ClassMapBuilder.build_class_map(classes)
build_class_map(classes) == [name \in classes |-> name]

\* key in self.class_map, for a str key
InClassMap(name) == name \in DOMAIN class_map

(***************************************************************************)
(* Encoder                                                                 *)
(***************************************************************************)
IsInstance(v, cls) ==
    CASE cls = "ToJsonable" -> (v.k = "obj" /\ v.s \in ToJsonableClasses) \/ v.s \in MixinClasses
      [] cls = "dict" -> v.k = "dict"
      [] cls = "OrderedDict" -> v.k = "dict" /\ v.s = "OrderedDict"
      [] cls = "date" -> v.k \in {"date", "datetime"}
      [] cls = "int" -> v.k \in {"int", "bool"}
      [] cls = "Enum" -> v.k = "enum"
      [] OTHER -> v.k = cls

\* EncodeBranch with the ToJsonable test after the built-in tests
EncodeBranchHookLast(v) ==
    IF IsInstance(v, "dict") \/ IsInstance(v, "OrderedDict") THEN "dict"
    ELSE IF IsInstance(v, "Enum") THEN "Enum"
    ELSE IF IsInstance(v, "tuple") THEN "tuple"
    ELSE IF IsInstance(v, "datetime") THEN "datetime"
    ELSE IF IsInstance(v, "date") THEN "date"
    ELSE IF IsInstance(v, "set") THEN "set"
    ELSE IF IsInstance(v, "list") THEN "list"
    ELSE IF IsInstance(v, "float") /\ v.s = "nan" THEN "nan"
    ELSE IF IsInstance(v, "float") /\ v.s \in {"inf", "-inf"} THEN "inf"
    ELSE IF IsInstance(v, "int") \/ IsInstance(v, "float") \/ IsInstance(v, "str") \/ v = PyNone
        THEN "primitive"
    ELSE IF np /\ IsInstance(v, "ndarray") THEN "ndarray"
    ELSE IF pd /\ IsInstance(v, "DataFrame") THEN "DataFrame"
    ELSE IF IsInstance(v, "ToJsonable") THEN "ToJsonable"
    ELSE "object"

\* the isinstance chain of default_to_json_dict: the first test that holds
EncodeBranch(v) ==
    IF IsInstance(v, "ToJsonable") THEN "ToJsonable"
    ELSE IF IsInstance(v, "dict") \/ IsInstance(v, "OrderedDict") THEN "dict"
    ELSE IF IsInstance(v, "Enum") THEN "Enum"
    ELSE IF IsInstance(v, "tuple") THEN "tuple"
    ELSE IF IsInstance(v, "datetime") THEN "datetime"
    ELSE IF IsInstance(v, "date") THEN "date"
    ELSE IF IsInstance(v, "set") THEN "set"
    ELSE IF IsInstance(v, "list") THEN "list"
    ELSE IF IsInstance(v, "float") /\ v.s = "nan" THEN "nan"
    ELSE IF IsInstance(v, "float") /\ v.s \in {"inf", "-inf"} THEN "inf"
    ELSE IF IsInstance(v, "int") \/ IsInstance(v, "float") \/ IsInstance(v, "str") \/ v = PyNone
        THEN "primitive"
    ELSE IF np /\ IsInstance(v, "ndarray") THEN "ndarray"
    ELSE IF pd /\ IsInstance(v, "DataFrame") THEN "DataFrame"
    ELSE "object"

\* the test that sends a non-empty dict to the 'dict' envelope
DictAsEnvelope(v) ==
    \/ treat_dict_as_ordered_dict
    \/ IsInstance(v, "OrderedDict")
    \/ ~IsInstance(ItemKey(v.xs[1]), "str")

\* {type_key: tag, data_key: data}
Envelope(tag, data) == DictDisplay(<<Item(PyStr(type_key), PyStr(tag)), Item(PyStr(data_key), data)>>)

\* EnumEnvelope carrying the member's value instead of its name
EnumEnvelopeByValue(v) == Envelope(v.s, EnumValue(v))

\* the envelope of an Enum member
EnumEnvelope(v) == Envelope(v.s, EnumName(v))

\* the envelope of a datetime
DateTimeEnvelope(v) ==
    DictDisplay(<<Item(PyStr(type_key), PyStr("datetime")),
                  Item(PyStr("year"), v.xs[1]), Item(PyStr("month"), v.xs[2]), Item(PyStr("day"), v.xs[3]),
                  Item(PyStr("hour"), v.xs[4]), Item(PyStr("minute"), v.xs[5]),
                  Item(PyStr("second"), v.xs[6]), Item(PyStr("microsecond"), v.xs[7])>>)

\* the envelope of a date
DateEnvelope(v) ==
    DictDisplay(<<Item(PyStr(type_key), PyStr("date")),
                  Item(PyStr("year"), v.xs[1]), Item(PyStr("month"), v.xs[2]), Item(PyStr("day"), v.xs[3])>>)

\* v.__dict__.items(): the attributes of an object, the bookkeeping of an
\* Enum member, nothing for an instance of a built-in container or date type
InstanceDict(v) ==
    IF v.k = "obj" THEN v.xs
    ELSE IF v.k = "enum"
        THEN <<Item(PyStr("_value_"), EnumValue(v)), Item(PyStr("_name_"), EnumName(v)),
               Item(PyStr("__objclass__"), PyStr(v.s)), Item(PyStr("_sort_order_"), PyInt(0))>>
    ELSE <<>>

RECURSIVE default_to_json_dict(_)
RECURSIVE simple_object_dump(_)
RECURSIVE DumpAttrs(_, _)
RECURSIVE EncodeAll(_)
RECURSIVE EncodeRecords(_)
RECURSIVE EncodeValues(_)

\* [self.to_json_dict(vv) for vv in xs]
EncodeAll(xs) ==
    IF xs = <<>> THEN <<>>
    ELSE <<default_to_json_dict(Head(xs))>> \o EncodeAll(Tail(xs))

\* [{'key': self.to_json_dict(kv), 'value': self.to_json_dict(vv)} for kv, vv in v.items()]
EncodeRecords(items) ==
    IF items = <<>> THEN <<>>
    ELSE <<DictDisplay(<<Item(PyStr("key"), default_to_json_dict(ItemKey(Head(items)))),
                         Item(PyStr("value"), default_to_json_dict(ItemVal(Head(items))))>>)>>
         \o EncodeRecords(Tail(items))

\* {kv: self.to_json_dict(vv) for kv, vv in v.items()}
EncodeValues(items) ==
    IF items = <<>> THEN <<>>
    ELSE <<Item(ItemKey(Head(items)), default_to_json_dict(ItemVal(Head(items))))>>
         \o EncodeValues(Tail(items))

\* the loop of simple_object_dump over v.__dict__.items()
DumpAttrs(tmp, attrs) ==
    IF attrs = <<>> THEN tmp
    ELSE IF ItemKey(Head(attrs)) = PyStr("__objclass__") THEN DumpAttrs(tmp, Tail(attrs))
    ELSE DumpAttrs(SetItem(tmp, ItemKey(Head(attrs)), default_to_json_dict(ItemVal(Head(attrs)))),
                   Tail(attrs))

simple_object_dump(v) ==
    PyDict(DumpAttrs(<<Item(PyStr("__type__"), PyStr(v.s))>>, InstanceDict(v)))

default_to_json_dict(v) ==
    LET branch == EncodeBranch(v)
    IN CASE branch = "ToJsonable" -> simple_object_dump(v)
         [] branch = "dict" ->
                IF Len(v.xs) = 0 THEN PyDict(<<>>)
                ELSE IF DictAsEnvelope(v) THEN Envelope("dict", PyList(EncodeRecords(v.xs)))
                ELSE PyDict(EncodeValues(v.xs))
         [] branch = "Enum" -> EnumEnvelope(v)
         [] branch = "tuple" -> Envelope("tuple", PyList(EncodeAll(v.xs)))
         [] branch = "datetime" -> DateTimeEnvelope(v)
         [] branch = "date" -> DateEnvelope(v)
         [] branch = "set" -> Envelope("set", PyList(EncodeAll(v.xs)))
         [] branch = "list" -> PyList(EncodeAll(v.xs))
         [] branch = "nan" -> Envelope("float", PyStr("nan"))
         [] branch = "inf" -> Envelope("float", PyStr(IF v.s = "inf" THEN "inf" ELSE "-inf"))
         [] branch = "primitive" -> v
         [] branch = "ndarray" -> Envelope("numpy.ndarray", default_to_json_dict(v.xs[1]))
         [] branch = "DataFrame" -> Envelope("pandas.DataFrame", default_to_json_dict(v.xs[1]))
         [] OTHER -> simple_object_dump(v)

\* the class names simple_object_dump warns about while v is encoded
RECURSIVE LookUpFailWarnings(_)
LookUpFailWarnings(v) ==
    LET branch == EncodeBranch(v)
        below(xs) == UNION {LookUpFailWarnings(xs[i]) : i \in 1..Len(xs)}
    IN CASE branch \in {"ToJsonable", "object"} ->
                (IF InClassMap(v.s) THEN {} ELSE {v.s})
                \cup UNION {LookUpFailWarnings(ItemVal(InstanceDict(v)[i])) : i \in 1..Len(InstanceDict(v))}
         [] branch = "dict" ->
                IF Len(v.xs) = 0 THEN {}
                ELSE IF DictAsEnvelope(v)
                    THEN UNION {below(v.xs[i].xs) : i \in 1..Len(v.xs)}
                ELSE UNION {LookUpFailWarnings(ItemVal(v.xs[i])) : i \in 1..Len(v.xs)}
         [] branch \in {"tuple", "set", "list", "ndarray", "DataFrame"} -> below(v.xs)
         [] OTHER -> {}

(***************************************************************************)
(* Decoder                                                                 *)
(***************************************************************************)
\* issubclass(obj_class, FromJsonable), issubclass(obj_class, Enum)
IsSubclass(cls, base) ==
    CASE base = "FromJsonable" -> cls \in FromJsonableClasses
      [] base = "Enum" -> cls \in EnumClasses \cup {"JColor"}
      [] OTHER -> FALSE

\* ClassBranch without the FromJsonable test
ClassBranchNoHook(obj_class) ==
    IF IsSubclass(obj_class, "Enum") THEN "Enum" ELSE "reflect"

\* the issubclass chain applied to a class found in the class map
ClassBranch(obj_class) ==
    IF IsSubclass(obj_class, "FromJsonable") THEN "FromJsonable"
    ELSE IF IsSubclass(obj_class, "Enum") THEN "Enum"
    ELSE "reflect"

\* obj_class.from_json_dict(d, decoder=self): HookUser overrides the hook and
\* reads d['firstname'], d['lastname']; FromJsonable's own hook is not implemented
FromJsonable_from_json_dict(obj_class, d) ==
    IF obj_class = "HookUser"
    THEN IF ~HasKey(d, PyStr("firstname")) \/ ~HasKey(d, PyStr("lastname")) THEN Error("KeyError")
         ELSE PyObj("HookUser", <<Item(PyStr("first"), GetItem(d, PyStr("firstname"))),
                                  Item(PyStr("last"), GetItem(d, PyStr("lastname")))>>)
    ELSE Error("NotImplementedError")

\* missing_params without the test of the default
RECURSIVE missing_params_any_default(_, _)
missing_params_any_default(params, d) ==
    IF params = <<>> THEN <<>>
    ELSE (IF ~HasKey(d, PyStr(Head(params).name)) THEN <<Head(params).name>> ELSE <<>>)
         \o missing_params_any_default(Tail(params), d)

\* [p_name for p_name, param in params.items()
\*  if p_name not in d and param.default == inspect.Parameter.empty]
RECURSIVE missing_params(_, _)
missing_params(params, d) ==
    IF params = <<>> THEN <<>>
    ELSE (IF ~HasKey(d, PyStr(Head(params).name)) /\ ~Head(params).has_default
          THEN <<Head(params).name>> ELSE <<>>) \o missing_params(Tail(params), d)

\* k in params
InParams(key, params) == key.k = "str" /\ \E i \in 1..Len(params) : params[i].name = key.s

\* the else branch of the tag chain: no class, no built-in tag
UnknownTag(d) == Error("ClassMapLookUpFailError")

\* iter(data): the elements a for loop sees, or a TypeError (a str is drawn
\* with at most one character)
Iterate(data) ==
    CASE data.k \in {"list", "tuple", "set"} -> PyList(data.xs)
      [] data.k = "dict" -> PyList(Keys(data.xs))
      [] data.k = "str" -> PyList(IF data.s = "" THEN <<>> ELSE <<data>>)
      [] OTHER -> Error("TypeError")

IsLeapYear(y) == (y % 4 = 0 /\ y % 100 # 0) \/ y % 400 = 0
DaysInMonth(y, m) ==
    IF m = 2 THEN (IF IsLeapYear(y) THEN 29 ELSE 28)
    ELSE IF m \in {4, 6, 9, 11} THEN 30 ELSE 31

\* kwargs.get(name, default), an int expected
IntArg(kwargs, name, default) ==
    IF HasKey(kwargs, PyStr(name)) THEN GetItem(kwargs, PyStr(name)) ELSE PyInt(default)

DateFieldsValid(y, m, dd) ==
    /\ y >= 1 /\ y <= 9999
    /\ m >= 1 /\ m <= 12
    /\ dd >= 1 /\ dd <= DaysInMonth(y, m)

\* date(**kwargs)
date(kwargs) ==
    LET names == {"year", "month", "day"}
        keys == {ItemKey(kwargs.xs[i]) : i \in 1..Len(kwargs.xs)}
    IN IF \/ \E key \in keys : key.k # "str" \/ key.s \notin names
          \/ \E name \in names : PyStr(name) \notin keys
          \/ \E i \in 1..Len(kwargs.xs) : ~IsInstance(ItemVal(kwargs.xs[i]), "int")
       THEN Error("TypeError")
       ELSE LET y == GetItem(kwargs, PyStr("year")).n
                m == GetItem(kwargs, PyStr("month")).n
                dd == GetItem(kwargs, PyStr("day")).n
            IN IF DateFieldsValid(y, m, dd) THEN PyDate(y, m, dd) ELSE Error("ValueError")

\* datetime(**kwargs); a tzinfo argument can only be None in JSON data
datetime(kwargs) ==
    LET required == {"year", "month", "day"}
        ints == required \cup {"hour", "minute", "second", "microsecond", "fold"}
        keys == {ItemKey(kwargs.xs[i]) : i \in 1..Len(kwargs.xs)}
    IN IF \/ \E key \in keys : key.k # "str" \/ key.s \notin (ints \cup {"tzinfo"})
          \/ \E name \in required : PyStr(name) \notin keys
          \/ \E i \in 1..Len(kwargs.xs) :
                IF ItemKey(kwargs.xs[i]) = PyStr("tzinfo") THEN ItemVal(kwargs.xs[i]) # PyNone
                ELSE ~IsInstance(ItemVal(kwargs.xs[i]), "int")
       THEN Error("TypeError")
       ELSE LET y == GetItem(kwargs, PyStr("year")).n
                m == GetItem(kwargs, PyStr("month")).n
                dd == GetItem(kwargs, PyStr("day")).n
                hh == IntArg(kwargs, "hour", 0).n
                mm == IntArg(kwargs, "minute", 0).n
                ss == IntArg(kwargs, "second", 0).n
                us == IntArg(kwargs, "microsecond", 0).n
                fold == IntArg(kwargs, "fold", 0).n
            IN IF /\ DateFieldsValid(y, m, dd)
                  /\ hh \in 0..23 /\ mm \in 0..59 /\ ss \in 0..59 /\ us \in 0..999999
                  /\ fold \in {0, 1}
               THEN PyDateTime(y, m, dd, hh, mm, ss, us, "")
               ELSE Error("ValueError")

\* set(data)
set(data) ==
    LET it == Iterate(data)
    IN IF IsError(it) THEN it
       ELSE IF \E i \in 1..Len(it.xs) : ~Hashable(it.xs[i]) THEN Error("TypeError")
       ELSE PySet(Dedup(<<>>, it.xs))

\* float(data): the literals float() reads, among the strings that are drawn
float(data) ==
    CASE data.k = "float" -> data
      [] data.k \in {"int", "bool"} -> PyFloat(ToString(data.n) \o ".0")
      [] data.k = "str" ->
            IF data.s \in {"nan", "NaN", "-nan", "+nan"} THEN PyFloat("nan")
            ELSE IF data.s \in {"inf", "+inf", "Inf", "infinity", "Infinity", "+infinity"} THEN PyFloat("inf")
            ELSE IF data.s \in {"-inf", "-Inf", "-infinity", "-Infinity"} THEN PyFloat("-inf")
            ELSE IF data.s \in {"1.5", "-2.0", "0.0"} THEN PyFloat(data.s)
            ELSE IF data.s \in {"1", "0"} THEN PyFloat(data.s \o ".0")
            ELSE Error("ValueError")
      [] OTHER -> Error("TypeError")

RECURSIVE default_from_json_dict(_)
RECURSIVE DecodeAll(_)
RECURSIVE DecodeValues(_)
RECURSIVE DecodeRecords(_, _)
RECURSIVE DecodeArguments(_, _)

\* [self.from_json_dict(item) for item in xs]: the list, or the first error
DecodeAll(xs) ==
    IF xs = <<>> THEN PyList(<<>>)
    ELSE LET first == default_from_json_dict(Head(xs))
         IN IF IsError(first) THEN first
            ELSE LET rest == DecodeAll(Tail(xs))
                 IN IF IsError(rest) THEN rest ELSE PyList(<<first>> \o rest.xs)

\* {k: self.from_json_dict(v) for k, v in d.items()}
DecodeValues(items) ==
    IF items = <<>> THEN PyDict(<<>>)
    ELSE LET first == default_from_json_dict(ItemVal(Head(items)))
         IN IF IsError(first) THEN first
            ELSE LET rest == DecodeValues(Tail(items))
                 IN IF IsError(rest) THEN rest
                    ELSE PyDict(<<Item(ItemKey(Head(items)), first)>> \o rest.xs)

\* {self.from_json_dict(item['key']): self.from_json_dict(item['value']) for item in data}
DecodeRecords(acc, data) ==
    IF data = <<>> THEN PyDict(acc)
    ELSE LET item == Head(data)
         IN IF item.k # "dict" THEN Error("TypeError")
            ELSE IF ~HasKey(item, PyStr("key")) THEN Error("KeyError")
            ELSE LET key == default_from_json_dict(GetItem(item, PyStr("key")))
                 IN IF IsError(key) THEN key
                    ELSE IF ~HasKey(item, PyStr("value")) THEN Error("KeyError")
                    ELSE LET val == default_from_json_dict(GetItem(item, PyStr("value")))
                         IN IF IsError(val) THEN val
                            ELSE IF ~Hashable(key) THEN Error("TypeError")
                            ELSE DecodeRecords(SetItem(acc, key, val), Tail(data))

\* {k: self.from_json_dict(v) for k, v in d.items() if k != type_key and k in params}
DecodeArguments(items, params) ==
    IF items = <<>> THEN PyDict(<<>>)
    ELSE IF ItemKey(Head(items)) = PyStr(type_key) \/ ~InParams(ItemKey(Head(items)), params)
        THEN DecodeArguments(Tail(items), params)
    ELSE LET first == default_from_json_dict(ItemVal(Head(items)))
         IN IF IsError(first) THEN first
            ELSE LET rest == DecodeArguments(Tail(items), params)
                 IN IF IsError(rest) THEN rest
                    ELSE PyDict(<<Item(ItemKey(Head(items)), first)>> \o rest.xs)

\* d[data_key], or the KeyError
Data(d) == IF HasKey(d, PyStr(data_key)) THEN GetItem(d, PyStr(data_key)) ELSE Error("KeyError")

default_from_json_dict(d) ==
    IF IsInstance(d, "dict") THEN
        IF ~HasKey(d, PyStr(type_key)) THEN DecodeValues(d.xs)
        ELSE LET tag == GetItem(d, PyStr(type_key))
                 data == Data(d)
             IN IF ~Hashable(tag) THEN Error("TypeError")
                ELSE IF tag.k = "str" /\ InClassMap(tag.s) THEN
                    LET obj_class == class_map[tag.s]
                        branch == ClassBranch(obj_class)
                        params == Parameters(obj_class)
                    IN IF branch = "FromJsonable" THEN FromJsonable_from_json_dict(obj_class, d)
                       ELSE IF branch = "Enum" THEN
                            IF IsError(data) THEN data
                            ELSE IF ~Hashable(data) THEN Error("TypeError")
                            ELSE EnumGetItem(obj_class, data)
                       ELSE IF missing_params(params, d) # <<>> THEN Error("MissingParameterError")
                       ELSE LET tmp == DecodeArguments(d.xs, params)
                            IN IF IsError(tmp) THEN tmp ELSE Construct(obj_class, tmp)
                ELSE IF tag = PyStr("dict") THEN
                    IF IsError(data) THEN data
                    ELSE IF IsError(Iterate(data)) THEN Iterate(data)
                    ELSE DecodeRecords(<<>>, Iterate(data).xs)
                ELSE IF tag = PyStr("tuple") THEN
                    IF IsError(data) THEN data
                    ELSE IF IsError(Iterate(data)) THEN Iterate(data)
                    ELSE LET items == DecodeAll(Iterate(data).xs)
                         IN IF IsError(items) THEN items ELSE PyTuple(items.xs)
                ELSE IF tag = PyStr("date") THEN date(PyDict(WithoutKey(d.xs, PyStr(type_key))))
                ELSE IF tag = PyStr("datetime") THEN datetime(PyDict(WithoutKey(d.xs, PyStr(type_key))))
                ELSE IF tag = PyStr("set") THEN
                    IF IsError(data) THEN data ELSE set(data)
                ELSE IF tag = PyStr("float") THEN
                    IF IsError(data) THEN data ELSE float(data)
                ELSE IF tag = PyStr("pandas.DataFrame") THEN
                    IF ~pd THEN Error("MissingOptionalDependencyError")
                    ELSE IF IsError(data) THEN data
                    ELSE LET frame == default_from_json_dict(data)
                         IN IF IsError(frame) THEN frame
                            ELSE IF frame.k \in {"dict", "list"} THEN DataFrame(frame)
                            ELSE Error("ValueError")
                ELSE IF tag = PyStr("numpy.ndarray") THEN
                    IF ~np THEN Error("MissingOptionalDependencyError")
                    ELSE IF IsError(data) THEN data
                    ELSE LET array == default_from_json_dict(data)
                         IN IF IsError(array) THEN array ELSE NdArray(array)
                ELSE UnknownTag(d)
    ELSE IF IsInstance(d, "list") THEN DecodeAll(d.xs)
    ELSE IF IsInstance(d, "int") \/ IsInstance(d, "str") \/ IsInstance(d, "float") THEN d
    ELSE IF d = PyNone THEN d
    ELSE Error("NotImplementedError")

(***************************************************************************)
(* Inputs: the values a caller encodes and the JSON data a caller decodes  *)
(***************************************************************************)
\* deepest nesting of one-element wrappers around a drawn value
MaxDepth == 2

RECURSIVE AsSeq(_, _)
AsSeq(f, i) == IF i > Len(f) THEN <<>> ELSE <<f[i]>> \o AsSeq(f, i + 1)
\* the sequences over S of length at most n
SeqsUpTo(S, n) == {AsSeq(f, 1) : f \in UNION {[1..m -> S] : m \in 0..n}}
\* those without a repeated element
DistinctSeqsUpTo(S, n) == {xs \in SeqsUpTo(S, n) : \A i, j \in 1..Len(xs) : xs[i] = xs[j] => i = j}

User(first_name, last_name) ==
    PyObj("User", <<Item(PyStr("first_name"), first_name), Item(PyStr("last_name"), last_name)>>)
SimpleClass(msg) == PyObj("SimpleClass", <<Item(PyStr("msg"), msg)>>)
BadUser(cls, first, last) == PyObj(cls, <<Item(PyStr("first"), first), Item(PyStr("last"), last)>>)

\* the members of an Enum class (aliases are the member they alias)
EnumMembers(cls) == {EnumGetItem(cls, ItemKey(Members(cls)[i])) : i \in 1..Len(Members(cls))}

Scalars ==
    {PyNone, PyInt(1), PyInt(2), PyBool(TRUE), PyStr("a"), PyStr("b"),
     PyFloat("1.5"), PyFloat("nan"), PyFloat("inf"), PyFloat("-inf")}

Dates ==
    {PyDate(2019, 8, 23), PyDate(2020, 2, 29)}

DateTimes ==
    {PyDateTime(2019, 8, 23, 12, 0, 3, 0, ""), PyDateTime(2019, 8, 23, 0, 0, 0, 0, ""),
     PyDateTime(2019, 8, 23, 12, 34, 56, 789, ""), PyDateTime(2019, 8, 23, 12, 0, 3, 5, "UTC")}

Objects ==
    {User(PyStr("f"), PyStr("l")), User(PyStr("a"), PyStr("b")), SimpleClass(PyStr("hello")),
     BadUser("BadUser", PyStr("hello"), PyStr("world")),
     BadUser("OptUser", PyStr("hello"), PyStr("default last")),
     BadUser("HookUser", PyStr("hello"), PyStr("world"))}

Leaves == Scalars \cup Dates \cup DateTimes \cup Objects \cup UNION {EnumMembers(cls) : cls \in EnumClasses}

\* the elements containers are filled with (all hashable)
Elems ==
    {PyInt(1), PyStr("a"), PyTuple(<<PyInt(1), PyInt(2)>>), PyEnum("Color", "RED"),
     User(PyStr("f"), PyStr("l"))}
DictKeys == {PyStr("a"), PyStr("b"), PyInt(2), User(PyStr("f"), PyStr("l"))}
DictVals == {PyInt(1), PyTuple(<<PyInt(1), PyInt(2)>>)}

Tuples == {PyTuple(xs) : xs \in SeqsUpTo(Elems, MaxLen)}
Lists == {PyList(xs) : xs \in SeqsUpTo({PyInt(1), PyStr("a"), PyDate(2019, 8, 23)}, MaxLen)}
Sets == {PySet(xs) : xs \in DistinctSeqsUpTo(Elems, MaxLen)}
RECURSIVE Zip(_, _)
Zip(ks, vs) == IF ks = <<>> THEN <<>> ELSE <<Item(Head(ks), Head(vs))>> \o Zip(Tail(ks), Tail(vs))
DictItems ==
    {Zip(ks, vs) : <<ks, vs>> \in {p \in DistinctSeqsUpTo(DictKeys, MaxLen) \X SeqsUpTo(DictVals, MaxLen) :
                                       Len(p[1]) = Len(p[2])}}
Dicts == {PyDict(items) : items \in DictItems} \cup {OrderedDict(items) : items \in DictItems}
Containers == Tuples \cup Lists \cup Sets \cup Dicts

\* x as the only element, key, value or attribute of a container or object
Wrap(x) ==
    {PyTuple(<<x>>), PyList(<<x>>), PyDict(<<Item(PyStr("a"), x)>>), SimpleClass(x)}
    \cup (IF Hashable(x) THEN {PySet(<<x>>), PyDict(<<Item(x, PyInt(1))>>)} ELSE {})
\* the containers that get wrapped: the short ones, and a dict whose first key
\* is a str and whose second is not
Nestables ==
    {c \in Containers : Len(c.xs) <= 1}
    \cup {PyDict(<<Item(PyStr("b"), PyInt(1)), Item(PyInt(2), PyInt(1))>>)}
RECURSIVE Wrapped(_, _)
Wrapped(S, depth) ==
    IF depth <= 1 THEN S ELSE S \cup Wrapped(UNION {Wrap(x) : x \in S}, depth - 1)

\* what to_json_dict is called with
Values ==
    Leaves \cup Containers \cup Wrapped(UNION {Wrap(x) : x \in Nestables}, MaxDepth - 1)
    \cup (IF np THEN {NdArray(PyList(<<PyInt(1), PyInt(2)>>))} ELSE {})
    \cup (IF pd THEN {DataFrame(PyDict(<<Item(PyStr("a"), PyDict(<<Item(PyInt(0), PyInt(1))>>))>>))} ELSE {})

\* {type_key: tag, name1: val1, ...}
Tagged(tag, fields) == DictDisplay(<<Item(PyStr(type_key), tag)>> \o fields)
Field(name, val) == Item(PyStr(name), val)
\* {'key': key, 'value': val}
Record(key, val) == DictDisplay(<<Field("key", key), Field("value", val)>>)

\* envelopes of user classes: complete, with a parameter missing, with a field too many
ObjectEnvelopes ==
    {Tagged(PyStr("User"), <<Field("first_name", PyStr("f")), Field("last_name", PyStr("l"))>>),
     Tagged(PyStr("SimpleClass"), <<Field("msg", PyStr("hello"))>>),
     Tagged(PyStr("BadUser"), <<Field("first", PyStr("hello"))>>),
     Tagged(PyStr("BadUser"), <<>>),
     Tagged(PyStr("BadUser"), <<Field("first", PyStr("hello")), Field("last", PyStr("world"))>>),
     Tagged(PyStr("BadUser"), <<Field("last", PyStr("world")), Field("extra", PyInt(1)),
                                Field("first", PyStr("hello"))>>),
     Tagged(PyStr("OptUser"), <<Field("first", PyStr("hello"))>>),
     Tagged(PyStr("OptUser"), <<Field("last", PyStr("world"))>>),
     Tagged(PyStr("OptUser"), <<Field("first", PyStr("hello")), Field("last", PyStr("world"))>>),
     Tagged(PyStr("HookUser"), <<Field("firstname", PyStr("hello")), Field("lastname", PyStr("world"))>>),
     Tagged(PyStr("HookUser"), <<Field("first", PyStr("hello")), Field("last", PyStr("world"))>>)}

EnumEnvelopes ==
    {Envelope("Color", PyStr("RED")), Envelope("Food", PyStr("RICE")), Envelope("Meal", PyStr("BRUNCH")),
     Envelope("Color", PyStr("reddd")), Envelope("Food", PyInt(1)), Tagged(PyStr("Color"), <<>>)}

\* mappings whose tag is no class name and no built-in tag
UnknownEnvelopes ==
    {Tagged(PyStr("Nope"), <<Field("first", PyStr("hello")), Field("last", PyStr("world"))>>),
     Tagged(PyStr("Tuple"), <<Item(PyStr(data_key), PyList(<<PyInt(1)>>))>>),
     Tagged(PyInt(5), <<>>),
     Tagged(PyNone, <<>>),
     Tagged(PyList(<<PyStr("dict")>>), <<>>)}

BuiltinEnvelopes ==
    {Envelope("dict", PyList(<<Record(PyStr("a"), PyStr("b")), Record(PyStr("c"), PyStr("d"))>>)),
     Envelope("dict", PyList(<<Record(PyList(<<PyInt(1)>>), PyInt(1))>>)),
     Envelope("dict", PyList(<<Record(PyInt(1), PyInt(1)), Record(PyInt(1), PyInt(2))>>)),
     Envelope("dict", PyList(<<PyDict(<<Field("key", PyInt(1))>>)>>)),
     Envelope("tuple", PyList(<<PyInt(1), PyInt(2), PyInt(3)>>)),
     Envelope("tuple", PyList(<<>>)),
     Tagged(PyStr("tuple"), <<>>),
     Envelope("set", PyList(<<PyInt(1), PyInt(1), PyInt(2)>>)),
     Envelope("set", PyList(<<PyList(<<PyInt(1)>>)>>)),
     Tagged(PyStr("date"), <<Field("year", PyInt(2019)), Field("month", PyInt(8)), Field("day", PyInt(23))>>),
     Tagged(PyStr("date"), <<Field("year", PyInt(2019)), Field("month", PyInt(2)), Field("day", PyInt(29))>>),
     Tagged(PyStr("date"), <<Field("year", PyInt(2019)), Field("month", PyInt(8))>>),
     Tagged(PyStr("datetime"), <<Field("year", PyInt(2019)), Field("month", PyInt(8)), Field("day", PyInt(23)),
                                 Field("hour", PyInt(12)), Field("minute", PyInt(34)),
                                 Field("second", PyInt(56)), Field("microsecond", PyInt(0))>>),
     Tagged(PyStr("datetime"), <<Field("year", PyInt(2019)), Field("month", PyInt(8)), Field("day", PyInt(23))>>),
     Tagged(PyStr("datetime"), <<Field("year", PyInt(2019)), Field("month", PyInt(8)), Field("day", PyInt(23)),
                                 Field("hour", PyInt(24))>>),
     Envelope("float", PyStr("nan")), Envelope("float", PyStr("inf")), Envelope("float", PyStr("-inf")),
     Envelope("float", PyStr("1.5")), Envelope("float", PyStr("infinity")), Envelope("float", PyStr("NaN")),
     Envelope("float", PyStr("abc")), Envelope("float", PyStr("")), Envelope("float", PyInt(1)),
     Envelope("float", PyNone), Tagged(PyStr("float"), <<>>),
     Envelope("numpy.ndarray", PyList(<<PyInt(1), PyInt(2), PyInt(3)>>)),
     Envelope("pandas.DataFrame",
              Envelope("dict", PyList(<<Record(PyStr("a"),
                                               Envelope("dict", PyList(<<Record(PyInt(0), PyInt(1))>>)))>>)))}

PlainJson ==
    {PyNone, PyInt(123), PyBool(TRUE), PyStr("hello"), PyFloat("123.0"),
     PyList(<<PyInt(1), PyInt(2), PyInt(3)>>), PyDict(<<>>),
     PyDict(<<Field("a", PyStr("b")), Field("c", PyStr("d"))>>)}

\* x at one of the places of a JSON document the decoder handles differently
Nest(x) ==
    {PyList(<<x>>),
     PyList(<<Tagged(PyStr("BadUser"), <<Field("first", PyStr("hello"))>>), x>>),
     PyDict(<<Field("a", x)>>),
     Envelope("dict", PyList(<<Record(PyStr("a"), x)>>)),
     Envelope("tuple", PyList(<<x>>)),
     Envelope("set", PyList(<<x>>)),
     Tagged(PyStr("User"), <<Field("first_name", x), Field("last_name", PyStr("l"))>>),
     Tagged(PyStr("User"), <<Field("first_name", PyStr("f")), Field("last_name", PyStr("l")),
                             Field("extra", x)>>)}
\* x at one of the places of a JSON document
Embed(x) ==
    Nest(x) \cup
    {PyList(<<PyInt(1), x>>),
     Envelope("dict", PyList(<<Record(x, PyInt(1))>>)),
     Envelope("dict", PyList(<<Record(PyList(<<PyInt(1)>>), PyInt(1)), Record(PyStr("a"), x)>>)),
     Envelope("numpy.ndarray", PyList(<<x>>)),
     Tagged(PyStr("BadUser"), <<Field("first", x)>>),
     Tagged(PyStr("OptUser"), <<Field("first", x)>>),
     Tagged(PyStr("HookUser"), <<Field("firstname", x), Field("lastname", PyStr("world"))>>),
     Tagged(PyStr("Color"), <<Item(PyStr(data_key), x)>>)}
RECURSIVE Embedded(_, _)
Embedded(S, depth) ==
    IF depth <= 1 THEN S ELSE S \cup Embedded(UNION {Nest(x) : x \in S}, depth - 1)

\* the documents nested to MaxDepth
NestedJson ==
    {Tagged(PyStr("Nope"), <<>>),
     Tagged(PyStr("BadUser"), <<Field("first", PyStr("hello"))>>),
     Envelope("tuple", PyList(<<PyInt(1), PyInt(2)>>)),
     PyInt(1)}

\* what from_json_dict is called with, besides the encoder's own output
RawJson ==
    PlainJson \cup ObjectEnvelopes \cup EnumEnvelopes \cup UnknownEnvelopes \cup BuiltinEnvelopes
    \cup UNION {Embed(x) : x \in UnknownEnvelopes}
    \cup Embedded(UNION {Embed(x) : x \in NestedJson}, MaxDepth)

(***************************************************************************)
(* The codec at work                                                       *)
(***************************************************************************)
\* the defaults of type_key and data_key, and a pair of other names
KeyNames == {<<"__type__", "__data__">>, <<"tk", "dk">>}

\* StrongJson(class_map, type_key, data_key, treat_dict_as_ordered_dict) is
\* constructed; the caller holds either a value to encode or JSON data to decode
Init ==
    /\ class_map \in {build_class_map({}), build_class_map(AllClasses)}
    /\ \E keys \in KeyNames : type_key = keys[1] /\ data_key = keys[2]
    /\ treat_dict_as_ordered_dict \in BOOLEAN
    /\ np \in BOOLEAN
    /\ pd \in BOOLEAN
    /\ \/ obj \in Values /\ json = NoValue
       \/ obj = NoValue /\ json \in RawJson
    /\ result = NoValue
    /\ warned = {}

\* json = self.to_json_dict(obj)
ToJsonDict ==
    /\ obj # NoValue
    /\ json = NoValue
    /\ json' = default_to_json_dict(obj)
    /\ warned' = LookUpFailWarnings(obj)
    /\ UNCHANGED <<codec, obj, result>>

\* result = self.from_json_dict(json)
FromJsonDict ==
    /\ json # NoValue
    /\ result = NoValue
    /\ result' = default_from_json_dict(json)
    /\ UNCHANGED <<codec, obj, json, warned>>

Next == ToJsonDict \/ FromJsonDict

Spec == Init /\ [][Next]_vars

\* a to_json_dict call has returned / its output has been decoded / raw data has been decoded
Encoded == obj # NoValue /\ json # NoValue
RoundTrip == Encoded /\ result # NoValue
DecodedRaw == obj = NoValue /\ result # NoValue

(***************************************************************************)
(* Vocabulary of the properties                                            *)
(***************************************************************************)
\* Python's ==: sets and dicts compare without regard to order, nan equals nothing
RECURSIVE PyEq(_, _)
PyEq(a, b) ==
    IF a.k # b.k THEN FALSE
    ELSE IF a.k \in {"set", "dict"} THEN
        /\ Len(a.xs) = Len(b.xs)
        /\ \A i \in 1..Len(a.xs) : \E j \in 1..Len(b.xs) : PyEq(a.xs[i], b.xs[j])
        /\ \A j \in 1..Len(b.xs) : \E i \in 1..Len(a.xs) : PyEq(a.xs[i], b.xs[j])
    ELSE IF a.k = "float" /\ (a.s = "nan" \/ b.s = "nan") THEN FALSE
    ELSE /\ a.s = b.s
         /\ a.n = b.n
         /\ Len(a.xs) = Len(b.xs)
         /\ \A i \in 1..Len(a.xs) : PyEq(a.xs[i], b.xs[i])

\* the classes of the objects and Enum members found in v
RECURSIVE ClassesIn(_)
ClassesIn(v) ==
    (IF v.k \in {"obj", "enum"} THEN {v.s} ELSE {})
    \cup (IF v.k = "enum" THEN {} ELSE UNION {ClassesIn(v.xs[i]) : i \in 1..Len(v.xs)})

\* cls is in the class map under its own name
Registered(cls) == InClassMap(cls) /\ class_map[cls] = cls
AllRegistered(v) == \A cls \in ClassesIn(v) : Registered(cls)

\* v is an instance of a plain-data class whose attributes are exactly its constructor parameters
IsPlainData(v) ==
    /\ v.k = "obj"
    /\ v.s \in PlainClasses
    /\ Len(v.xs) = Len(Parameters(v.s))
    /\ \A i \in 1..Len(v.xs) : ItemKey(v.xs[i]) = PyStr(Parameters(v.s)[i].name)

AllStrKeys(d) == \A i \in 1..Len(d.xs) : ItemKey(d.xs[i]).k = "str"

\* every dict inside the JSON value j has str keys only
RECURSIVE OnlyStrKeys(_)
OnlyStrKeys(j) ==
    /\ j.k = "dict" => AllStrKeys(j)
    /\ \A i \in 1..Len(j.xs) : OnlyStrKeys(j.xs[i])

(***************************************************************************)
(* C1..C5                                                                  *)
(***************************************************************************)
\* C1: a registered plain-data object encodes to a mapping with its class name
\* under the codec's type_key and one field per attribute, and that mapping
\* decodes to an instance with the same attribute values, for every type_key
C1_ObjectRoundTrip ==
    (Encoded /\ IsPlainData(obj) /\ Registered(obj.s)) =>
        /\ json.k = "dict"
        /\ HasKey(json, PyStr(type_key))
        /\ GetItem(json, PyStr(type_key)) = PyStr(obj.s)
        /\ Range(Keys(json.xs)) = {PyStr(type_key)} \cup Range(Keys(obj.xs))
        /\ \A i \in 1..Len(obj.xs) :
              GetItem(json, ItemKey(obj.xs[i])) = default_to_json_dict(ItemVal(obj.xs[i]))
        /\ result # NoValue => PyEq(result, obj)

\* C2: a set, also one of tuples, Enum members, dates or registered objects,
\* decodes from its encoding to a set with the same elements
C2_SetRoundTrip ==
    (RoundTrip /\ obj.k = "set" /\ AllRegistered(obj)) =>
        /\ result.k = "set"
        /\ PyEq(result, obj)

\* C3: a non-empty mapping with a non-str key, or any non-empty mapping under
\* treat_dict_as_ordered_dict, encodes to the 'dict' envelope of its
\* {key, value} records in order, which decodes to the same associations
C3_DictEnvelopeRoundTrip ==
    (/\ Encoded /\ obj.k = "dict" /\ Len(obj.xs) > 0 /\ AllRegistered(obj)
     /\ (treat_dict_as_ordered_dict \/ ~AllStrKeys(obj))) =>
        /\ json = PyDict(<<Item(PyStr(type_key), PyStr("dict")),
                           Item(PyStr(data_key), PyList(EncodeRecords(obj.xs)))>>)
        /\ result # NoValue => (result.k = "dict" /\ PyEq(result, PyDict(obj.xs)))

\* C4: a tuple encodes to the 'tuple' envelope of its encoded elements in
\* order, which decodes to a tuple equal to it element by element
C4_TupleRoundTrip ==
    (Encoded /\ obj.k = "tuple" /\ AllRegistered(obj)) =>
        /\ json = PyDict(<<Item(PyStr(type_key), PyStr("tuple")),
                           Item(PyStr(data_key), PyList(EncodeAll(obj.xs)))>>)
        /\ result # NoValue => (result.k = "tuple" /\ PyEq(result, obj))

\* C5: a member of a registered Enum encodes to the envelope of its class
\* name and its own name, and decodes to the same member, also when values
\* are shared between members or between Enum classes
C5_EnumRoundTrip ==
    (Encoded /\ obj.k = "enum" /\ Registered(obj.s)) =>
        /\ json = PyDict(<<Item(PyStr(type_key), PyStr(obj.s)), Item(PyStr(data_key), obj.xs[1])>>)
        /\ result # NoValue => result = obj

\* Meal.BREAKFAST (value 1, as Meal.BRUNCH and Food.NOODLES) has made the round trip
C5_Witness ==
    /\ RoundTrip
    /\ obj = PyEnum("Meal", "BREAKFAST")
    /\ EnumValue(obj) = EnumValue(PyEnum("Food", "NOODLES"))
    /\ EnumGetItem("Meal", PyStr("BRUNCH")) = obj
    /\ result = obj

(***************************************************************************)
(* C6..C10                                                                 *)
(***************************************************************************)
\* the fields of obj (a date or a datetime) are in json under names
FieldsCarried(names) ==
    /\ Range(Keys(json.xs)) = {PyStr(type_key)} \cup {PyStr(names[i]) : i \in 1..Len(names)}
    /\ \A i \in 1..Len(names) : GetItem(json, PyStr(names[i])) = obj.xs[i]

\* a date is under the 'date' tag with its three fields, a datetime under the
\* 'datetime' tag with its seven
DateEnvelopeShape ==
    /\ json.k = "dict"
    /\ HasKey(json, PyStr(type_key))
    /\ obj.k = "datetime" =>
          /\ GetItem(json, PyStr(type_key)) = PyStr("datetime")
          /\ FieldsCarried(<<"year", "month", "day", "hour", "minute", "second", "microsecond">>)
    /\ obj.k = "date" =>
          /\ GetItem(json, PyStr(type_key)) = PyStr("date")
          /\ FieldsCarried(<<"year", "month", "day">>)

\* C6: every date and every datetime is encoded under its own tag with all
\* its calendar and clock fields (a datetime never under 'date') and decodes
\* to an equal value
C6_DateRoundTrip ==
    (Encoded /\ obj.k \in {"date", "datetime"}) =>
        /\ DateEnvelopeShape
        /\ result # NoValue => PyEq(result, obj)

\* json is an envelope whose tag names a class of the class map
IsTagged(d) == d.k = "dict" /\ HasKey(d, PyStr(type_key))
Tag(d) == GetItem(d, PyStr(type_key))
NamesClass(d) == IsTagged(d) /\ Tag(d).k = "str" /\ InClassMap(Tag(d).s)
NamesPlainClass(d) ==
    /\ NamesClass(d)
    /\ ~IsSubclass(class_map[Tag(d).s], "FromJsonable")
    /\ ~IsSubclass(class_map[Tag(d).s], "Enum")

\* the constructor parameters without a default that d has no field for
Missing(d) ==
    LET params == Parameters(class_map[Tag(d).s])
    IN {i \in 1..Len(params) : ~params[i].has_default /\ ~HasKey(d, PyStr(params[i].name))}

\* the fields of d that name a constructor parameter
ParameterFields(d) ==
    LET params == Parameters(class_map[Tag(d).s])
    IN {i \in 1..Len(d.xs) : /\ ItemKey(d.xs[i]) # PyStr(type_key)
                             /\ \E j \in 1..Len(params) : ItemKey(d.xs[i]) = PyStr(params[j].name)}

\* result is the instance built from the decoded parameter fields and the defaults
ConstructedFromFields ==
    LET cls == class_map[Tag(json).s]
        params == Parameters(cls)
    IN /\ result.k = "obj"
       /\ result.s = cls
       /\ Len(result.xs) = Len(params)
       /\ \A i \in 1..Len(params) :
             /\ ItemKey(result.xs[i]) = PyStr(params[i].name)
             /\ ItemVal(result.xs[i]) =
                   IF HasKey(json, PyStr(params[i].name))
                   THEN default_from_json_dict(GetItem(json, PyStr(params[i].name)))
                   ELSE params[i].default

\* C7 as stated: MissingParameterError exactly when a parameter without
\* default is absent, otherwise the object is constructed
C7_Original ==
    (result # NoValue /\ NamesPlainClass(json)) =>
        /\ result = Error("MissingParameterError") <=> Missing(json) # {}
        /\ Missing(json) = {} => ConstructedFromFields

\* C7: MissingParameterError whenever a parameter without default is absent;
\* otherwise the fields naming a parameter are decoded in order, the first
\* that fails ends the call with its error, and when none fails the object is
\* constructed from them and the defaults, other fields being ignored
C7_ReflectionDecode ==
    (result # NoValue /\ NamesPlainClass(json)) =>
        IF Missing(json) # {} THEN result = Error("MissingParameterError")
        ELSE LET failing == {i \in ParameterFields(json) :
                                IsError(default_from_json_dict(ItemVal(json.xs[i])))}
             IN IF failing # {}
                THEN LET first == CHOOSE i \in failing : \A j \in failing : i <= j
                     IN result = default_from_json_dict(ItemVal(json.xs[first]))
                ELSE ConstructedFromFields

\* OptUser decoded without its defaulted parameter, and BadUser's extra field dropped
C7_Witness ==
    /\ DecodedRaw
    /\ json = Tagged(PyStr("OptUser"), <<Field("first", PyStr("hello"))>>)
    /\ NamesPlainClass(json)
    /\ result = BadUser("OptUser", PyStr("hello"), PyStr("default last"))

BuiltinTags == {"dict", "tuple", "set", "date", "datetime", "float", "pandas.DataFrame", "numpy.ndarray"}

\* a mapping whose tag is neither a class-map name nor a built-in tag
IsUnknownTag(d) ==
    /\ IsTagged(d)
    /\ ~(Tag(d).k = "str" /\ (InClassMap(Tag(d).s) \/ Tag(d).s \in BuiltinTags))

\* d is the 'dict' / 'tuple' envelope of a list
IsEnvelopeOf(d, tag) ==
    /\ IsTagged(d) /\ Tag(d) = PyStr(tag) /\ ~InClassMap(tag)
    /\ HasKey(d, PyStr(data_key)) /\ GetItem(d, PyStr(data_key)).k = "list"

\* C8's places: an unknown-tag mapping is d or lies in a list, a plain
\* mapping, a 'dict' or 'tuple' envelope or a field of a registered object
RECURSIVE HasUnknownTag(_)
HasUnknownTag(d) ==
    \/ IsUnknownTag(d)
    \/ d.k = "list" /\ \E i \in 1..Len(d.xs) : HasUnknownTag(d.xs[i])
    \/ d.k = "dict" /\ ~IsTagged(d) /\ \E i \in 1..Len(d.xs) : HasUnknownTag(ItemVal(d.xs[i]))
    \/ IsEnvelopeOf(d, "tuple") /\ HasUnknownTag(GetItem(d, PyStr(data_key)))
    \/ /\ IsEnvelopeOf(d, "dict")
       /\ \E i \in 1..Len(GetItem(d, PyStr(data_key)).xs) :
             LET item == GetItem(d, PyStr(data_key)).xs[i]
             IN item.k = "dict" /\ \E j \in 1..Len(item.xs) :
                   ItemKey(item.xs[j]) \in {PyStr("key"), PyStr("value")} /\ HasUnknownTag(ItemVal(item.xs[j]))
    \/ NamesClass(d) /\ \E i \in 1..Len(d.xs) :
          ItemKey(d.xs[i]) # PyStr(type_key) /\ HasUnknownTag(ItemVal(d.xs[i]))

\* C8: a mapping with an unknown tag, at the top or at any depth of those
\* places, ends the call in ClassMapLookUpFailError
C8_UnknownTagFails ==
    (result # NoValue /\ HasUnknownTag(json)) => result = Error("ClassMapLookUpFailError")

\* C9: an envelope whose tag names a FromJsonable class decodes to what the
\* class's hook returns for the raw mapping; missing constructor parameters
\* are never reported
C9_HookDecode ==
    (result # NoValue /\ NamesClass(json) /\ IsSubclass(class_map[Tag(json).s], "FromJsonable")) =>
        /\ result = FromJsonable_from_json_dict(class_map[Tag(json).s], json)
        /\ result # Error("MissingParameterError")
        /\ result.k = "obj" =>
              /\ ItemVal(result.xs[1]) = GetItem(json, PyStr("firstname"))
              /\ ItemVal(result.xs[2]) = GetItem(json, PyStr("lastname"))

\* HookUser built by its hook from an envelope without 'first' and 'last',
\* the undecoded mapping under 'firstname' handed over as it is
C9_Witness ==
    /\ DecodedRaw
    /\ json = Tagged(PyStr("HookUser"), <<Field("firstname", Tagged(PyStr("Nope"), <<>>)),
                                          Field("lastname", PyStr("world"))>>)
    /\ NamesClass(json)
    /\ Missing(json) # {}
    /\ result = BadUser("HookUser", Tagged(PyStr("Nope"), <<>>), PyStr("world"))

\* C10: a non-empty mapping is encoded as a plain mapping only when the codec
\* does not treat dicts as ordered, the mapping is no OrderedDict and all its
\* keys are str, else as the 'dict' envelope; every mapping emitted has str
\* keys only
C10_PlainMappingOnlyStrKeys ==
    Encoded =>
        /\ (obj.k = "dict" /\ Len(obj.xs) > 0) =>
              IF ~treat_dict_as_ordered_dict /\ obj.s # "OrderedDict" /\ AllStrKeys(obj)
              THEN json = PyDict(EncodeValues(obj.xs))
              ELSE json = PyDict(<<Item(PyStr(type_key), PyStr("dict")),
                                   Item(PyStr(data_key), PyList(EncodeRecords(obj.xs)))>>)
        /\ OnlyStrKeys(json)

(***************************************************************************)
(* C11..C13                                                                *)
(***************************************************************************)
\* json is the 'float' envelope of a str
IsFloatEnvelope(d) ==
    /\ IsTagged(d) /\ Tag(d) = PyStr("float") /\ ~InClassMap("float")
    /\ HasKey(d, PyStr(data_key)) /\ GetItem(d, PyStr(data_key)).k = "str"

\* C11: a 'float' envelope decodes to NaN for "nan", to +infinity for "inf",
\* to -infinity for "-inf", ends in an error for every other data string, and
\* never gives a finite number
C11_FloatSentinels ==
    (result # NoValue /\ IsFloatEnvelope(json)) =>
        LET data == GetItem(json, PyStr(data_key)).s
        IN /\ data = "nan" => result = PyFloat("nan")
           /\ data = "inf" => result = PyFloat("inf")
           /\ data = "-inf" => result = PyFloat("-inf")
           /\ data \notin {"nan", "inf", "-inf"} => IsError(result)
           /\ result.k = "float" => result.s \in {"nan", "inf", "-inf"}

\* the tags C12 names
SentinelTags == {"dict", "tuple", "set", "date", "datetime", "float"}

\* class maps written by hand that register a class under a built-in tag
ShadowClassMaps ==
    {[tag \in {t} |-> cls] : t \in SentinelTags, cls \in {"SimpleClass", "HookUser", "Color"}}
    \cup {[tag \in SentinelTags |-> "SimpleClass"], build_class_map({}), build_class_map(AllClasses)}

\* instances of the MixinClasses
MixinValues ==
    {V("dict", "JDict", 0, <<Item(PyStr("a"), PyInt(1))>>),
     V("tuple", "JTuple", 0, <<PyInt(1), PyInt(2)>>),
     V("set", "JSet", 0, <<PyInt(1)>>),
     V("list", "JList", 0, <<PyInt(1)>>),
     V("date", "JDate", 0, <<PyInt(2019), PyInt(8), PyInt(23)>>),
     PyEnum("JColor", "RED")}

\* what to_json_dict is called with when precedence is looked at
ShadowValues ==
    MixinValues \cup Dates \cup DateTimes \cup Objects
    \cup {PyTuple(<<PyInt(1), PyInt(2)>>), PySet(<<PyInt(1)>>), PyFloat("nan"),
          PyDict(<<Item(PyInt(2), PyInt(1))>>), PyEnum("Color", "RED")}

\* what from_json_dict is called with: envelopes without nested objects, and
\* mappings under a built-in tag that carry SimpleClass's parameter
ShadowJson ==
    BuiltinEnvelopes \cup ObjectEnvelopes
    \cup {Tagged(PyStr(tag), <<Field("msg", PyStr("hello"))>>) : tag \in SentinelTags}

\* StrongJson(class_map, ...) with a class map of ShadowClassMaps
InitShadowed ==
    /\ class_map \in ShadowClassMaps
    /\ \E keys \in KeyNames : type_key = keys[1] /\ data_key = keys[2]
    /\ treat_dict_as_ordered_dict \in BOOLEAN
    /\ np \in BOOLEAN
    /\ pd \in BOOLEAN
    /\ \/ obj \in ShadowValues /\ json = NoValue
       \/ obj = NoValue /\ json \in ShadowJson
    /\ result = NoValue
    /\ warned = {}

SpecShadowed == InitShadowed /\ [][Next]_vars

\* json carries one of the SentinelTags
HasSentinelTag(d) == IsTagged(d) /\ Tag(d).k = "str" /\ Tag(d).s \in SentinelTags

\* to_json_dict took the ToJsonable hook: the class name under '__type__' and
\* the instance attributes, not the envelope of a mapping, tuple, set, date or
\* Enum member and not a list
HookEncoded ==
    /\ json.k = "dict"
    /\ HasKey(json, PyStr("__type__"))
    /\ GetItem(json, PyStr("__type__")) = PyStr(obj.s)
    /\ ~HasKey(json, PyStr(data_key))
    /\ ~HasKey(json, PyStr("year"))
    /\ Len(json.xs) = 1 + Cardinality({i \in 1..Len(InstanceDict(obj)) :
                                          ItemKey(InstanceDict(obj)[i]) # PyStr("__objclass__")})

\* the kinds of value the built-in rule of a tag produces
BuiltinKinds(tag) ==
    CASE tag = "dict" -> {"dict"}
      [] tag = "tuple" -> {"tuple"}
      [] tag = "set" -> {"set"}
      [] tag = "date" -> {"date"}
      [] tag = "datetime" -> {"datetime"}
      [] tag = "float" -> {"float"}
      [] OTHER -> {}

\* from_json_dict took the built-in rule of json's tag: the result is of the
\* tag's kind or an error, no instance of a class
BuiltinDecoded == result.k \in BuiltinKinds(Tag(json).s) \cup {"error"}

\* C12 as stated: a ToJsonable value is encoded by its hook whatever else it
\* is, and an envelope under a built-in tag is decoded by the built-in rule
\* whatever the class map registers
C12_Original ==
    /\ (Encoded /\ IsInstance(obj, "ToJsonable")) => HookEncoded
    /\ (DecodedRaw /\ HasSentinelTag(json)) => BuiltinDecoded

\* C12: a ToJsonable value is encoded by its hook whatever else it is; an
\* envelope under a built-in tag is decoded by the built-in rule when the
\* class map has no class under that tag, and by the class registered under
\* it otherwise (its hook, its Enum lookup, or the constructor reflection)
C12_DispatchPrecedence ==
    /\ (Encoded /\ IsInstance(obj, "ToJsonable")) => HookEncoded
    /\ (DecodedRaw /\ HasSentinelTag(json)) =>
          IF ~InClassMap(Tag(json).s) THEN BuiltinDecoded
          ELSE LET cls == class_map[Tag(json).s]
               IN IF IsSubclass(cls, "FromJsonable")
                      THEN result = FromJsonable_from_json_dict(cls, json)
                  ELSE IF IsSubclass(cls, "Enum")
                      THEN result.k = "error" \/ (result.k = "enum" /\ result.s = cls)
                  ELSE IF Missing(json) # {} THEN result = Error("MissingParameterError")
                  ELSE ConstructedFromFields

\* 'tuple' names SimpleClass in the class map: the envelope of a tuple went to
\* the constructor reflection
C12_Witness ==
    /\ DecodedRaw
    /\ class_map = [tag \in {"tuple"} |-> "SimpleClass"]
    /\ json = Envelope("tuple", PyList(<<PyInt(1), PyInt(2), PyInt(3)>>))
    /\ result = Error("MissingParameterError")

\* obj is a plain-data object of a class the class map does not have
IsUnregisteredObject(v) == v.k = "obj" /\ ~InClassMap(v.s)

\* the state after to_json_dict(obj), and after from_json_dict of its result,
\* that C13 describes for such an object
UnregisteredDumped ==
    (Encoded /\ IsUnregisteredObject(obj)) =>
        /\ ~IsError(json)
        /\ obj.s \in warned
        /\ json = DictDisplay(<<Item(PyStr(type_key), PyStr(obj.s))>> \o EncodeValues(obj.xs))
        /\ result # NoValue => result = Error("ClassMapLookUpFailError")

\* C13: encoding an object of an unregistered class does not fail, warns, and
\* returns the envelope of a registered one (the class name under the type key
\* and every attribute encoded); decoding that envelope with the same codec
\* ends in ClassMapLookUpFailError; no call changes the class map or the
\* configuration
C13_UnregisteredWarning == []UnregisteredDumped /\ [][codec' = codec]_vars

====
